---- MODULE Spec2Model ----
(***************************************************************************)
(* The install / init pipelines of install-tx3-nextjs as a state machine.  *)
(*                                                                         *)
(* The repository holds two revisions of the commands:                     *)
(*   rev 1: src/src/commands/install.ts  and init.ts lines 1-143           *)
(*   rev 2: init.ts lines 144-290 (init) and 291-697 (install, with the    *)
(*          trix / devnet best-effort steps and the verbose option)        *)
(* Both are modelled; the variable rev says which one a run executes.      *)
(*                                                                         *)
(* The project directory is the function fs from the five files the        *)
(* pipeline writes to their content, plus the set dirs of directories.     *)
(* Every filesystem operation and every external command can fail; the     *)
(* failure is chosen nondeterministically where the call is made.          *)
(***************************************************************************)
EXTENDS Integers, Sequences, FiniteSets, TLC

\* ------------------------------------------------------------------ bounds
\* Number of distinct user-defined keys (scripts of package.json, path
\* mappings of tsconfig.json) a project may hold besides the TX3 ones.
MaxUserKeys == 1

UserKeyNames == <<"userA", "userB", "userC", "userD">>

UserKeys == { UserKeyNames[i] : i \in 1..MaxUserKeys }

\* ------------------------------------------------------------------ paths
PackageJson == "package.json"
TsConfig == "tsconfig.json"
TrixToml == "tx3/trix.toml"
MainTx3 == "tx3/main.tx3"
GenerateScript == "scripts/generate-tx3.mjs"

TemplatePaths == <<TrixToml, MainTx3, GenerateScript>>

Paths == {PackageJson, TsConfig, TrixToml, MainTx3, GenerateScript}

BackupDir == ".tx3-backup"

\* The files installCommand considers for backup, in its order.
BackupCandidates == <<PackageJson, TsConfig>>

requiredPackages == {"tx3-sdk", "tx3-trp"}
requiredDevPackages == {"glob", "dotenv", "nodemon", "concurrently"}

\* The scripts installCommand hands to PackageUtils.addScripts.
Tx3Scripts ==
  [n \in {"tx3:generate", "watch:tx3", "dev"} |->
     CASE n = "tx3:generate" -> "node scripts/generate-tx3.mjs"
       [] n = "watch:tx3" -> "nodemon --watch tx3 --ext tx3 --exec npm run tx3:generate"
       [] n = "dev" -> "concurrently next dev --turbopack npm run watch:tx3"]

DevnetScriptName == "devnet:start"
DevnetScriptCommand == "cd devnet && dolos daemon"

\* A variant with the two targets exchanged.
Tx3PathMappingsExchanged ==
  [k \in {"@tx3/*", "@tx3"} |->
     IF k = "@tx3/*" THEN "./tx3/bindings" ELSE "./tx3/bindings/*"]

\* The path mappings updateTsConfig sets.
Tx3PathMappings ==
  [k \in {"@tx3/*", "@tx3"} |->
     IF k = "@tx3/*" THEN "./tx3/bindings/*" ELSE "./tx3/bindings"]

\* ------------------------------------------------------------ file content
\* A file is a record; kind "absent" is a file that does not exist, "bad"
\* a JSON file that does not parse.  fmt is the byte layout of a JSON file:
\* "two" is what JSON.stringify(doc, null, 2) produces, "orig" any other
\* layout of the same document (so rewriting an unchanged document still
\* changes the bytes of a file that was not laid out that way).
EmptyMap == [k \in {} |-> ""]

AbsentPkg == [kind |-> "absent", fmt |-> "none", deps |-> {}, devDeps |-> {}, scripts |-> EmptyMap]
BadPkg == [kind |-> "bad", fmt |-> "orig", deps |-> {}, devDeps |-> {}, scripts |-> EmptyMap]

\* A tsconfig.json: top is the kind of the value JSON.parse returns, other
\* its keys apart from compilerOptions, co the kind of compilerOptions,
\* coOther the keys of compilerOptions apart from paths, pathsKind the kind
\* of compilerOptions.paths and paths its keys.  The kinds of a value:
\* "absent" (no such key), "falsy" (null, false, 0, ""), "primitive" (any
\* other number, string or boolean), "array", "object".
TsDoc(k, f, t, o, c, co, pk, m) ==
  [kind |-> k, fmt |-> f, top |-> t, other |-> o, co |-> c, coOther |-> co,
   pathsKind |-> pk, paths |-> m]

AbsentTs == TsDoc("absent", "none", "absent", EmptyMap, "absent", EmptyMap, "absent", EmptyMap)
BadTs == TsDoc("bad", "orig", "absent", EmptyMap, "absent", EmptyMap, "absent", EmptyMap)

AbsentText == [kind |-> "absent", data |-> "none"]
UserText == [kind |-> "text", data |-> "user"]
TemplateText == [kind |-> "text", data |-> "template"]

Exists(c) == c.kind # "absent"

\* Overriding function update: m with the entries of n set.
Merge(m, n) ==
  [k \in (DOMAIN m) \cup (DOMAIN n) |-> IF k \in DOMAIN n THEN n[k] ELSE m[k]]

Range(s) == { s[i] : i \in DOMAIN s }

\* All maps from a subset of keys to values.
Maps(keys, vals) == UNION { [d -> vals] : d \in SUBSET keys }

\* --------------------------------------------------- projects a run can meet
\* The user keys a document holds: the first k of them, for each k.
UserKeySets == { { UserKeyNames[i] : i \in 1..k } : k \in 0..MaxUserKeys }

Custom(keys) == [k \in keys |-> "custom"]

\* package.json documents (deps and devDeps hold the packages the installer
\* looks for; other dependencies play no part): projects without TX3, with
\* or without a dev script and user scripts; projects with part of the
\* packages; a project on which the installer already ran.
PlainPkg(f, keys) ==
  [kind |-> "json", fmt |-> f, deps |-> {}, devDeps |-> {}, scripts |-> Custom(keys)]

TypicalPkg == PlainPkg("orig", {"dev"} \cup UserKeys)

PlainPkgs ==
  { PlainPkg("orig", d \cup u) : d \in SUBSET {"dev"}, u \in UserKeySets }
    \cup { PlainPkg("two", {"dev"} \cup UserKeys) }

DepsOnlyPkg == [TypicalPkg EXCEPT !.deps = requiredPackages]

DevOnlyPkg == [TypicalPkg EXCEPT !.devDeps = requiredDevPackages]

InstalledPkg ==
  [kind |-> "json", fmt |-> "two", deps |-> requiredPackages,
   devDeps |-> requiredDevPackages, scripts |-> Merge(Custom(UserKeys), Tx3Scripts)]

\* A project with a script of its own under the name of the devnet script.
OwnDevnetPkg == PlainPkg("orig", {"dev", DevnetScriptName} \cup UserKeys)

InitialPkgs ==
  PlainPkgs \cup {DepsOnlyPkg, DevOnlyPkg, InstalledPkg, OwnDevnetPkg, AbsentPkg, BadPkg}

\* tsconfig.json documents: without compilerOptions, without paths, with
\* paths holding user mappings and possibly a stale @tx3 mapping, and one
\* the installer already merged.
JsonTs(f, co, hp, m) ==
  TsDoc("json", f, "object", EmptyMap, IF co THEN "object" ELSE "absent", EmptyMap,
        IF hp THEN "object" ELSE "absent", m)

TypicalTs == JsonTs("orig", TRUE, TRUE, Custom(UserKeys))

MergedTs == JsonTs("two", TRUE, TRUE, Merge(Custom(UserKeys), Tx3PathMappings))

\* Every shape of parseable tsconfig.json: a top-level value that is no
\* object; an object whose compilerOptions is no object; compilerOptions
\* whose paths is no object; and paths with user mappings, with or without
\* (possibly stale) @tx3 mappings.
ParseableTs ==
  UNION {
    { TsDoc("json", f, t, EmptyMap, "absent", EmptyMap, "absent", EmptyMap) :
        t \in {"falsy", "primitive", "array"} }
    \cup
    { TsDoc("json", f, "object", Custom(o), c, EmptyMap, "absent", EmptyMap) :
        o \in UserKeySets, c \in {"absent", "falsy", "primitive", "array"} }
    \cup
    { TsDoc("json", f, "object", Custom(o), "object", Custom(co), pk, EmptyMap) :
        o \in UserKeySets, co \in UserKeySets,
        pk \in {"absent", "falsy", "primitive", "array"} }
    \cup
    { TsDoc("json", f, "object", Custom(o), "object", Custom(co), "object", m) :
        o \in UserKeySets, co \in UserKeySets,
        m \in { Custom(t \cup u) : t \in SUBSET {"@tx3", "@tx3/*"}, u \in UserKeySets }
              \cup { Merge(Custom(u), Tx3PathMappings) : u \in UserKeySets } }
    : f \in {"orig", "two"} }

InitialTs ==
  { JsonTs("orig", TRUE, TRUE, Custom(t \cup u)) : t \in SUBSET {"@tx3"}, u \in UserKeySets }
    \cup { JsonTs("orig", FALSE, FALSE, EmptyMap),
           JsonTs("orig", TRUE, FALSE, EmptyMap),
           MergedTs, AbsentTs, BadTs }

\* Template files: none yet, all present with user edits (a reinstall), or
\* only tx3/trix.toml present.
NoTemplates == [p \in Range(TemplatePaths) |-> AbsentText]

InitialTemplates ==
  { NoTemplates,
    [p \in Range(TemplatePaths) |-> UserText],
    [p \in Range(TemplatePaths) |-> IF p = TrixToml THEN UserText ELSE AbsentText] }

Project(pkg, ts, tmpl) ==
  [p \in Paths |->
     CASE p = PackageJson -> pkg
       [] p = TsConfig -> ts
       [] OTHER -> tmpl[p]]

\* The projects a run starts from: every package.json, every tsconfig.json
\* and every state of the template files, each combined with a typical and
\* with a degenerate state of the other files.
InitialProjects ==
  { Project(pkg, ts, NoTemplates) :
      pkg \in InitialPkgs, ts \in {TypicalTs, AbsentTs} }
    \cup { Project(pkg, ts, NoTemplates) :
             pkg \in {TypicalPkg, InstalledPkg}, ts \in InitialTs }
    \cup { Project(pkg, ts, tmpl) :
             pkg \in {TypicalPkg, InstalledPkg}, ts \in {TypicalTs, MergedTs},
             tmpl \in InitialTemplates }

\* What the project generator of init leaves on disk: a Next.js project
\* with a parseable package.json and tsconfig.json and no TX3 files.
GeneratedProjects ==
  { Project(pkg, ts, NoTemplates) :
      pkg \in { PlainPkg(f, {"dev"}) : f \in {"orig", "two"} },
      ts \in { JsonTs("orig", TRUE, FALSE, EmptyMap), TypicalTs } }

NoProject == Project(AbsentPkg, AbsentTs, NoTemplates)

\* The directories the files of a project imply.
DirsOf(f) ==
  (IF Exists(f[TrixToml]) \/ Exists(f[MainTx3]) THEN {"tx3"} ELSE {})
    \cup (IF Exists(f[GenerateScript]) THEN {"scripts"} ELSE {})

\* ------------------------------------------------------------- collaborators
\* ProjectValidator, PackageUtils and FileUtils are imported by the commands
\* from src/utils, which is not part of the sources at hand.

\* The warning installCommand looks for; the other warnings are only
\* printed and are left out.
Tx3Warning == "TX3 files already exist"

\* ProjectValidator.validateNextJsProject: invalid without a parseable
\* package.json; the Next.js indicators are not part of the state, so a
\* parseable project can be judged either way.  The TX3 warning is raised
\* when the tx3 directory or TX3 scripts are present.
validateNextJsProject(f, d) ==
  { [isValid |-> v, warnings |-> w] :
      v \in (IF f[PackageJson].kind = "json" THEN BOOLEAN ELSE {FALSE}),
      w \in { IF "tx3" \in d
                  \/ (f[PackageJson].kind = "json"
                       /\ {"tx3:generate", "watch:tx3"} \cap DOMAIN f[PackageJson].scripts # {})
               THEN {Tx3Warning} ELSE {} } }

\* ProjectValidator.validateFreshProject: only the directory is examined
\* (not part of the state), so either verdict can come back, with or without
\* the TX3 warning.
validateFreshProject(f, d) ==
  { [isValid |-> v, warnings |-> w] :
      v \in BOOLEAN, w \in SUBSET {Tx3Warning} }

\* PackageUtils.readPackageJson throws unless package.json exists and parses.
CanReadPackageJson(f) == f[PackageJson].kind = "json"

\* PackageUtils.getMissingPackages: the required packages listed neither in
\* dependencies nor in devDependencies.
getMissingPackages(required, pkg) == required \ (pkg.deps \cup pkg.devDeps)

\* PackageUtils.installPackages, when the package manager succeeds: the
\* packages are recorded in package.json by the package manager.
installPackages(pkgs, isDev, pkg) ==
  IF isDev
    THEN [pkg EXCEPT !.devDeps = @ \cup pkgs]
    ELSE [pkg EXCEPT !.deps = @ \cup pkgs]

\* PackageUtils.addScripts: every given script is set, overwriting a script
\* of the same name; PackageUtils.writePackageJson serializes the document.
addScripts(scripts, pkg) == [pkg EXCEPT !.scripts = Merge(@, scripts)]

writePackageJson(pkg) == [pkg EXCEPT !.fmt = "two"]

\* FileUtils.backupFile: an existing file is copied into the backup area and
\* recorded with existedBefore; a missing one is recorded without a copy.
backupFile(path, f) ==
  [originalPath |-> path, backupPath |-> path, existedBefore |-> Exists(f[path])]

\* ------------------------------------------------------------- installCommand
\* Files backed up: those of the candidates that exist.
\* (variant: the filter keeps package.json only)
\* A variant without the fileExists filter.
FilesToBackupUnfiltered(f) == BackupCandidates

FilesToBackupOnlyPackageJson(f) ==
  SelectSeq(BackupCandidates, LAMBDA p : Exists(f[p]) /\ p = PackageJson)

FilesToBackup(f) ==
  SelectSeq(BackupCandidates, LAMBDA p : Exists(f[p]))

\* updateTsConfig on a parseable document throws a TypeError: a property
\* is read from null or undefined, or assigned on a primitive value (the
\* module is strict code).
updateTsConfigThrows(ts) ==
  \/ ts.top \in {"falsy", "primitive"}
  \/ ts.top = "object" /\ ts.co = "primitive"
  \/ ts.top = "object" /\ ts.co = "object" /\ ts.pathsKind = "primitive"

\* A variant that starts paths afresh when it already holds "@tx3".
updateTsConfigStartingAfresh(ts) ==
  IF ts.top = "array" \/ ts.co = "array" \/ (ts.co = "object" /\ ts.pathsKind = "array")
    THEN [ts EXCEPT !.fmt = "two"]
    ELSE [ts EXCEPT !.fmt = "two", !.co = "object", !.pathsKind = "object",
                    !.paths = IF "@tx3" \in DOMAIN ts.paths THEN Tx3PathMappings
                              ELSE Merge(ts.paths, Tx3PathMappings)]

\* updateTsConfig on a parseable document on which it does not throw: the
\* document JSON.stringify(tsconfig, null, 2) writes.  A property assigned
\* on an array is not serialised, so a document whose top-level value,
\* compilerOptions or paths is an array is written back as it was parsed.
updateTsConfig(ts) ==
  IF ts.top = "array" \/ ts.co = "array" \/ (ts.co = "object" /\ ts.pathsKind = "array")
    THEN [ts EXCEPT !.fmt = "two"]
    ELSE [ts EXCEPT !.fmt = "two", !.co = "object", !.pathsKind = "object",
                    !.paths = Merge(ts.paths, Tx3PathMappings)]

\* A variant that starts the scripts afresh.
addDevnetScriptOnly(pkg) ==
  [pkg EXCEPT !.scripts = [n \in {DevnetScriptName} |-> DevnetScriptCommand]]

\* setupDevnet's change of package.json.
addDevnetScript(pkg) ==
  [pkg EXCEPT !.scripts = Merge(@, [n \in {DevnetScriptName} |-> DevnetScriptCommand])]

\* What showDryRunPreview prints, as the set of the changes it announces,
\* for a readable package.json: the trix installation when trix is not
\* installed, the devnet setup (revision 2 announces it in either case),
\* the missing packages, the three scripts, the three files and the
\* tsconfig.json update.
showDryRunPreview(pkg, trixInstalled, r) ==
  (IF r = 2 /\ ~trixInstalled THEN {<<"trix", "tx3up">>} ELSE {})
    \cup (IF r = 2 /\ (trixInstalled \/ ~trixInstalled)
           THEN {<<"devnet", "copy">>, <<"devnet", DevnetScriptName>>} ELSE {})
    \cup { <<"package", q>> :
             q \in getMissingPackages(requiredPackages, pkg)
                     \cup getMissingPackages(requiredDevPackages, pkg) }
    \cup { <<"script", n>> : n \in DOMAIN Tx3Scripts }
    \cup { <<"file", q>> : q \in Range(TemplatePaths) }
    \cup { <<"config", TsConfig>> }

\* FileUtils.restoreFromBackup, when it succeeds: the backup bytes are copied
\* over the original, or the original is deleted when it did not exist.
restoreFromBackup(entry, f, area) ==
  [f EXCEPT ![entry.originalPath] =
     IF entry.existedBefore THEN area[entry.backupPath]
     ELSE NoProject[entry.originalPath]]

\* ------------------------------------------- templates/next-config.ts
\* A text is the sequence of the pieces whose concatenation it is: braces,
\* the 'webpack:' key, the names of the configuration object and the line
\* feed are pieces of their own. A line is a text without line feed.
MaxLines == 3

\* The line feed.
Newline == "\n"

\* The argument left out: no text, and no text is made of this piece.
Undefined == <<"undefined">>

\* The empty string.
EmptyString == <<>>

\* lines.join('\n')
RECURSIVE Join(_)
Join(lines) ==
  IF lines = <<>> THEN <<>>
  ELSE IF Len(lines) = 1 THEN lines[1]
  ELSE lines[1] \o <<Newline>> \o Join(Tail(lines))

\* text.split('\n'): the empty string gives one empty line.
RECURSIVE Split(_)
Split(text) ==
  IF \A j \in DOMAIN text : text[j] # Newline THEN <<text>>
  ELSE LET j == CHOOSE n \in DOMAIN text :
                  /\ text[n] = Newline
                  /\ \A m \in 1..(n - 1) : text[m] # Newline
       IN  <<SubSeq(text, 1, j - 1)>> \o Split(SubSeq(text, j + 1, Len(text)))

\* The template literal, written line by line.
nextConfigWebpackTemplate ==
  Join(<< <<>>,
     <<"webpack:", " (config) => ", "{">>,
     <<"  // Add alias for @tx3">>,
     <<"  config.resolve.alias = ", "{">>,
     <<"    ...config.resolve.alias,">>,
     <<"    '@tx3': './node_modules/.tx3',">>,
     <<"  ", "}", ";">>,
     <<>>,
     <<"  // Configure webpack to handle TypeScript files in .tx3 directory">>,
     <<"  config.module.rules.push(", "{">>,
     <<"    test: /\\.ts$/,">>,
     <<"    include: /node_modules\\/\\.tx3/,">>,
     <<"    use: [">>,
     <<"      ", "{">>,
     <<"        loader: 'ts-loader',">>,
     <<"        options: ", "{">>,
     <<"          transpileOnly: true,">>,
     <<"          compilerOptions: ", "{">>,
     <<"            module: 'esnext',">>,
     <<"            target: 'es2017',">>,
     <<"            moduleResolution: 'node',">>,
     <<"            esModuleInterop: true,">>,
     <<"            allowSyntheticDefaultImports: true,">>,
     <<"            skipLibCheck: true,">>,
     <<"          ", "}", ",">>,
     <<"        ", "}", ",">>,
     <<"      ", "}", ",">>,
     <<"    ],">>,
     <<"  ", "}", ");">>,
     <<>>,
     <<"  return config;">>,
     <<"}", ",">> >>)

\* The lines an existing configuration is made of in this model.
ConfigLines ==
  { <<"const nextConfig", " = ", "{">>,
    <<"/** @type ", "{", "import('next').NextConfig", "}", " */ ", "const nextConfig", " = ", "{">>,
    <<"const nextConfig", " = ", "{", "}", ";">>,
    <<"module.exports", " = nextConfig;">>,
    <<"  ", "reactStrictMode: true", ",">>,
    <<"  ", "reactStrictMode: true">>,
    <<"}", ";">>,
    <<"}", ";", " const other = ", "{">>,
    <<"  ", "webpack:", " (config) => config", ",">>,
    <<"export default nextConfig", ";">> }

RECURSIVE TextsOfLength(_)
TextsOfLength(n) ==
  IF n = 0 THEN { <<>> }
  ELSE { Append(t, l) : t \in TextsOfLength(n - 1), l \in ConfigLines }

\* The existing configurations: every text of 1..MaxLines lines.
ConfigTexts == { Join(t) : t \in UNION { TextsOfLength(n) : n \in 1..MaxLines } }

\* line.includes(piece)
LineIncludes(line, piece) == \E j \in DOMAIN line : line[j] = piece

\* A variant that looks at the first line only.
IncludesInFirstLine(text, piece) == LineIncludes(Split(text)[1], piece)

\* text.includes(piece)
Includes(text, piece) == \E j \in DOMAIN text : text[j] = piece

\* (line.match(/piece/g) || []).length
MatchCount(line, piece) == Cardinality({ j \in DOMAIN line : line[j] = piece })

WebpackConflict ==
  "Existing webpack configuration detected. Please manually merge the TX3 webpack configuration."
CouldNotParse == "Could not parse existing Next.js configuration"
NoInsertionPoint == "Could not find insertion point in Next.js configuration"

Returned(value) == [ok |-> TRUE, value |-> value, error |-> "none"]
Thrown(message) == [ok |-> FALSE, value |-> Undefined, error |-> message]

\* The configuration generateNextConfig creates when there is none.
NewNextConfig ==
  <<"/** @type ", "{", "import('next').NextConfig", "}", " */", Newline,
    "const nextConfig", " = ", "{", Newline,
    "  ">>
  \o nextConfigWebpackTemplate
  \o <<Newline, "}", ";", Newline, Newline, "export default nextConfig", ";", Newline>>

IsDeclaration(line) ==
  LineIncludes(line, "const nextConfig") \/ LineIncludes(line, "module.exports")

\* A variant that falls back to the first line.
configObjectStartOrFirstLine(lines) ==
  IF \E i \in DOMAIN lines : IsDeclaration(lines[i])
    THEN CHOOSE i \in DOMAIN lines :
           /\ IsDeclaration(lines[i])
           /\ \A k \in 1..(i - 1) : ~IsDeclaration(lines[k])
    ELSE 1

\* lines.findIndex(...), counting lines from 1; 0 stands for -1.
configObjectStart(lines) ==
  IF \E i \in DOMAIN lines : IsDeclaration(lines[i])
    THEN CHOOSE i \in DOMAIN lines :
           /\ IsDeclaration(lines[i])
           /\ \A k \in 1..(i - 1) : ~IsDeclaration(lines[k])
    ELSE 0

\* The loop over the lines from configObjectStart on; 0 stands for -1.
RECURSIVE insertIndex(_, _, _, _)
insertIndex(lines, i, braceCount, foundOpenBrace) ==
  IF i > Len(lines) THEN 0
  ELSE LET line == lines[i]
           found == foundOpenBrace \/ LineIncludes(line, "{")
           opened == IF LineIncludes(line, "{")
                       THEN braceCount + MatchCount(line, "{")
                       ELSE braceCount
           closed == IF found THEN opened - MatchCount(line, "}") ELSE opened
       IN  IF found /\ closed = 0 THEN i
           ELSE insertIndex(lines, i + 1, closed, found)

\* A variant that leaves the lines as they are.
webpackConfigUnindented == Split(nextConfigWebpackTemplate)

\* nextConfigWebpackTemplate.split('\n').map(line => '  ' + line)
webpackConfig ==
  LET lines == Split(nextConfigWebpackTemplate)
  IN  [i \in DOMAIN lines |-> <<"  ">> \o lines[i]]

\* A variant that inserts after the line.
SpliceAfter(lines, at, block) ==
  SubSeq(lines, 1, at) \o block \o SubSeq(lines, at + 1, Len(lines))

\* lines.splice(at, 0, ...block), counting lines from 1.
Splice(lines, at, block) ==
  SubSeq(lines, 1, at - 1) \o block \o SubSeq(lines, at, Len(lines))

\* A variant that starts afresh whatever the existing configuration holds.
generateNextConfigAfresh(existingConfig) == Returned(NewNextConfig)

generateNextConfig(existingConfig) ==
  IF existingConfig = Undefined \/ existingConfig = EmptyString
    THEN Returned(NewNextConfig)
  ELSE IF Includes(existingConfig, "webpack:")
    THEN Thrown(WebpackConflict)
  ELSE LET lines == Split(existingConfig)
           start == configObjectStart(lines)
           at == insertIndex(lines, start, 0, FALSE)
       IN  IF start = 0 THEN Thrown(CouldNotParse)
           ELSE IF at = 0 THEN Thrown(NoInsertionPoint)
           ELSE Returned(Join(Splice(lines, at, webpackConfig)))

\* ------------------------------------------------------------------- state
VARIABLES
  cmd,            \* "install" or "init": the subcommand of this process
  rev,            \* 1 or 2: the revision of the commands that runs
  opts,           \* InstallOptions of the installCommand call
  iopts,          \* InitOptions of the initCommand call
  pc,             \* position of installCommand
  ipc,            \* position of initCommand
  fs,             \* content of the project files
  dirs,           \* directories of the project
  backupArea,     \* content of the backup area, by original path
  backups,        \* installCommand's  backups: BackupEntry[]
  filesToBackup,  \* installCommand's  filesToBackup
  rbIndex,        \* position of the rollback loop in backups
  tmplIndex,      \* position of createTx3Files in TemplatePaths
  validation,     \* the ValidationResult
  installTrix,    \* installCommand's  installTrix
  includeDevnet,  \* installCommand's  includeDevnet
  trixPresent,    \* whether the trix binary is installed on the machine
  missingPackages,
  missingDevPackages,
  projectName,    \* initCommand's projectName: "none", "ok" or "bad"
  targetExists,   \* whether the directory projectName exists (seen from the start directory)
  targetBefore,   \* whether that directory existed when the process started
  fn,             \* the function applied on its own, or "none" in a run of a command
  input,          \* the argument that function is applied to
  outputs,        \* what its successive applications returned
  cwd,            \* "start" or "project": the process working directory
  processExit,    \* "none", or "1" after process.exit(1)
  \* history, for stating the properties
  pre,            \* fs when installCommand was entered
  events,         \* the calls made so far, in order
  errStep,        \* the step whose error entered the catch block, or "none"
  restored        \* indices of backups on which restoreFromBackup was attempted

vars ==
  <<cmd, rev, opts, iopts, pc, ipc, fs, dirs, backupArea, backups,
    filesToBackup, rbIndex, tmplIndex, validation, installTrix, includeDevnet,
    trixPresent, missingPackages, missingDevPackages, projectName,
    targetExists, targetBefore, fn, input, outputs, cwd, processExit, pre,
    events, errStep, restored>>

\* Groups of variables, for UNCHANGED.
functionVars == <<fn, input, outputs>>
inputVars == <<cmd, rev, iopts, targetBefore, functionVars>>
initVars == <<ipc, projectName, targetExists, cwd>>
backupVars == <<backupArea, backups, filesToBackup>>
promptVars == <<validation, installTrix, includeDevnet>>
missingVars == <<missingPackages, missingDevPackages>>
rollbackVars == <<rbIndex, errStep, restored>>

Event(op, arg, ok) == [op |-> op, arg |-> arg, ok |-> ok]

NoValidation == [isValid |-> FALSE, warnings |-> {}]

InstallOptionSets ==
  [dryRun : BOOLEAN, force : BOOLEAN, fresh : BOOLEAN, verbose : {FALSE}]

NoOptions == [dryRun |-> FALSE, force |-> FALSE, fresh |-> FALSE, verbose |-> FALSE]

InitOptionSets == [projectName : {"none", "ok", "bad"}, dryRun : BOOLEAN]

NoInitOptions == [projectName |-> "none", dryRun |-> FALSE]

\* What the variables of the functions hold in a run of a command.
NoFunction ==
  /\ fn = "none"
  /\ input = Undefined
  /\ outputs = <<>>

Init ==
  /\ cmd \in {"install", "init"}
  /\ NoFunction
  /\ rev \in {1, 2}
  /\ trixPresent \in (IF rev = 2 THEN BOOLEAN ELSE {FALSE})
  /\ IF cmd = "install"
       THEN /\ opts \in InstallOptionSets
            /\ iopts = NoInitOptions
            /\ fs \in InitialProjects
            /\ pc = "Validating"
            /\ ipc = "none"
            /\ targetExists = TRUE
            /\ cwd = "project"
       ELSE /\ opts = NoOptions
            /\ iopts \in InitOptionSets
            /\ fs = NoProject
            /\ pc = "Idle"
            /\ ipc = "Start"
            /\ targetExists \in BOOLEAN
            /\ cwd = "start"
  /\ targetBefore = targetExists
  /\ dirs = DirsOf(fs)
  /\ pre = fs
  /\ backupArea = NoProject
  /\ backups = <<>>
  /\ filesToBackup = <<>>
  /\ rbIndex = 1
  /\ tmplIndex = 1
  /\ validation = NoValidation
  /\ installTrix = FALSE
  /\ includeDevnet = FALSE
  /\ missingPackages = {}
  /\ missingDevPackages = {}
  /\ projectName = "none"
  /\ processExit = "none"
  /\ events = <<>>
  /\ errStep = "none"
  /\ restored = {}

\* ------------------------------------------------- installCommand, by step
Log(e) == events' = Append(events, e)

\* Entry of the catch block of installCommand.
Catch(step) ==
  /\ pc' = "RollingBack"
  /\ rbIndex' = 1
  /\ errStep' = step
  /\ UNCHANGED restored

\* (variant: the errors are printed but the run goes on)
AfterValidateIgnoringErrors(v) == "Warnings"

\* After validation: an invalid project makes installCommand throw.
AfterValidate(v) == IF ~v.isValid THEN "Thrown" ELSE "Warnings"

\* The 'already installed' prompt is shown without force when the TX3
\* warning is among the warnings.
NeedsProceedPrompt(o, v) ==
  v.warnings # {} /\ ~o.force /\ Tx3Warning \in v.warnings

AfterProceed(proceed) == IF proceed THEN "DryRunCheck" ELSE "Cancelled"

\* (variant: the dry-run flag is not consulted)
AfterDryRunCheckIgnoringFlag(o, r) ==
  IF r = 2 THEN "TrixPrompt" ELSE "Confirming"

AfterDryRunCheck(o, r) ==
  IF o.dryRun THEN "Previewing"
  ELSE IF r = 2 THEN "TrixPrompt" ELSE "Confirming"

\* (variant: the packages are installed before the backup is taken)
PhasesPackagesFirst ==
  <<"ComputeMissing", "EnsureBackupDir", "UpdateTsConfig", "AddScripts", "CreateDirs">>

\* The phases of the try block in the order of its statements, each named
\* by its first step: backup, packages, tsconfig, scripts, TX3 files.
Phases ==
  <<"EnsureBackupDir", "ComputeMissing", "UpdateTsConfig", "AddScripts", "CreateDirs">>

\* After the TX3 files: the devnet setup of revision 2 when it was asked for.
AfterTemplates(r, devnet) ==
  IF r = 2 /\ devnet THEN "SetupDevnet" ELSE "Completed"

\* Where the try block goes when the phase starting at step is done.
EndOfPhase(step) ==
  LET i == CHOOSE k \in DOMAIN Phases : Phases[k] = step
  IN IF i < Len(Phases) THEN Phases[i + 1] ELSE AfterTemplates(rev, includeDevnet)

\* (variant: trix is installed before the answer is looked at)
AfterConfirmTrixFirst(confirmInstall, r, trix) ==
  IF r = 2 /\ trix THEN "InstallTrix"
  ELSE IF ~confirmInstall THEN "Cancelled" ELSE Phases[1]

AfterConfirm(confirmInstall, r, trix) ==
  IF ~confirmInstall THEN "Cancelled"
  ELSE IF r = 2 /\ trix THEN "InstallTrix" ELSE Phases[1]

\* (variant: the trix installation has no try/catch of its own)
AfterInstallTrixRethrow(ok) == IF ok THEN Phases[1] ELSE "RollingBack"

\* A failed trix installation is caught where it is made.
AfterInstallTrix(ok) == Phases[1]

\* A variant that installs nothing.
AfterComputeMissingSkipping(m, d) == EndOfPhase("ComputeMissing")

AfterComputeMissing(m, d) ==
  IF m # {} THEN "InstallDeps"
  ELSE IF d # {} THEN "InstallDevDeps" ELSE EndOfPhase("ComputeMissing")

\* A variant that runs the package manager for the same packages again.
AfterInstallDepsAgain(d) == "InstallDeps"

AfterInstallDeps(d) ==
  IF d # {} THEN "InstallDevDeps" ELSE EndOfPhase("ComputeMissing")

\* A failed devnet setup is caught where it is made.
AfterSetupDevnet(ok) == "Completed"

\* (variant: a failed restore leaves the loop)
RollbackNextStopOnFailure(i, ok) == IF ok THEN i + 1 ELSE Len(backups) + 1

\* The rollback loop goes on to the next entry whether or not the restore
\* succeeded.
RollbackNext(i, ok) == i + 1

\* (variant: the catch block returns without process.exit(1))
ExitAfterRollbackMissing == "none"

\* The catch block ends the process.
ExitAfterRollback == "1"

Validate ==
  /\ pc = "Validating"
  /\ \E v \in (IF opts.fresh THEN validateFreshProject(fs, dirs)
                             ELSE validateNextJsProject(fs, dirs)) :
       /\ validation' = v
       /\ pc' = AfterValidate(v)
       /\ Log(Event("validate", IF opts.fresh THEN "fresh" ELSE "nextjs", v.isValid))
  /\ UNCHANGED <<inputVars, opts, initVars, fs, dirs, backupVars, rollbackVars,
                 tmplIndex, installTrix, includeDevnet, trixPresent, missingVars,
                 processExit, pre>>

ShowWarnings ==
  /\ pc = "Warnings"
  /\ IF NeedsProceedPrompt(opts, validation)
       THEN \E proceed \in BOOLEAN :
              /\ pc' = AfterProceed(proceed)
              /\ Log(Event("prompt", "proceed", proceed))
       ELSE /\ pc' = "DryRunCheck"
            /\ UNCHANGED events
  /\ UNCHANGED <<inputVars, opts, initVars, fs, dirs, backupVars, rollbackVars,
                 tmplIndex, promptVars, trixPresent, missingVars, processExit, pre>>

DryRunCheck ==
  /\ pc = "DryRunCheck"
  /\ pc' = AfterDryRunCheck(opts, rev)
  /\ UNCHANGED <<inputVars, opts, initVars, fs, dirs, backupVars, rollbackVars,
                 tmplIndex, promptVars, trixPresent, missingVars, processExit,
                 pre, events>>

\* showDryRunPreview: reads package.json to list the missing packages;
\* revision 2 first asks whether trix is installed.
ShowDryRunPreview ==
  /\ pc = "Previewing"
  /\ LET checked == IF rev = 2
                      THEN Append(events, Event("checkTrix", "preview", trixPresent))
                      ELSE events
     IN IF CanReadPackageJson(fs)
          THEN /\ missingPackages' = getMissingPackages(requiredPackages, fs[PackageJson])
               /\ missingDevPackages' = getMissingPackages(requiredDevPackages, fs[PackageJson])
               /\ events' = Append(checked, Event("preview", "install", TRUE))
               /\ pc' = "Previewed"
          ELSE /\ UNCHANGED missingVars
               /\ events' = checked
               /\ pc' = "Thrown"
  /\ UNCHANGED <<inputVars, opts, initVars, fs, dirs, backupVars, rollbackVars,
                 tmplIndex, promptVars, trixPresent, processExit, pre>>

TrixPrompt ==
  /\ pc = "TrixPrompt"
  /\ IF ~opts.verbose
       THEN IF ~trixPresent
              THEN \E shouldInstallTrix \in BOOLEAN :
                     /\ installTrix' = shouldInstallTrix
                     /\ events' = events \o <<Event("checkTrix", "first", trixPresent),
                                              Event("prompt", "shouldInstallTrix", shouldInstallTrix)>>
              ELSE /\ UNCHANGED installTrix
                   /\ Log(Event("checkTrix", "first", trixPresent))
       ELSE UNCHANGED <<installTrix, events>>
  /\ pc' = "DevnetPrompt"
  /\ UNCHANGED <<inputVars, opts, initVars, fs, dirs, backupVars, rollbackVars,
                 tmplIndex, validation, includeDevnet, trixPresent, missingVars,
                 processExit, pre>>

DevnetPrompt ==
  /\ pc = "DevnetPrompt"
  /\ IF ~opts.verbose
       THEN IF trixPresent \/ installTrix
              THEN \E shouldIncludeDevnet \in BOOLEAN :
                     /\ includeDevnet' = shouldIncludeDevnet
                     /\ events' = events \o <<Event("checkTrix", "second", trixPresent),
                                              Event("prompt", "shouldIncludeDevnet", shouldIncludeDevnet)>>
              ELSE /\ UNCHANGED includeDevnet
                   /\ Log(Event("checkTrix", "second", trixPresent))
       ELSE UNCHANGED <<includeDevnet, events>>
  /\ pc' = "Confirming"
  /\ UNCHANGED <<inputVars, opts, initVars, fs, dirs, backupVars, rollbackVars,
                 tmplIndex, validation, installTrix, trixPresent, missingVars,
                 processExit, pre>>

Confirm ==
  /\ pc = "Confirming"
  /\ \E confirmInstall \in BOOLEAN :
       /\ pc' = AfterConfirm(confirmInstall, rev, installTrix)
       /\ Log(Event("prompt", "confirmInstall", confirmInstall))
  /\ UNCHANGED <<inputVars, opts, initVars, fs, dirs, backupVars, rollbackVars,
                 tmplIndex, promptVars, trixPresent, missingVars, processExit, pre>>

\* TrixInstaller.installTrix inside its own try/catch.
InstallTrix ==
  /\ pc = "InstallTrix"
  /\ \E ok \in BOOLEAN :
       /\ trixPresent' = (trixPresent \/ ok)
       /\ pc' = AfterInstallTrix(ok)
       /\ IF pc' = "RollingBack"
            THEN rbIndex' = 1 /\ errStep' = "trix" /\ UNCHANGED restored
            ELSE UNCHANGED rollbackVars
       /\ Log(Event("installTrix", "tx3up", ok))
  /\ UNCHANGED <<inputVars, opts, initVars, fs, dirs, backupVars,
                 tmplIndex, promptVars, missingVars, processExit, pre>>

EnsureBackupDir ==
  /\ pc = "EnsureBackupDir"
  /\ \E ok \in BOOLEAN :
       /\ Log(Event("ensureBackupDir", BackupDir, ok))
       /\ IF ok
            THEN /\ dirs' = dirs \cup {BackupDir}
                 /\ filesToBackup' = FilesToBackup(fs)
                 /\ pc' = IF filesToBackup' = <<>>
                            THEN EndOfPhase("EnsureBackupDir") ELSE "BackingUp"
                 /\ UNCHANGED rollbackVars
            ELSE /\ Catch("backup")
                 /\ UNCHANGED <<dirs, filesToBackup>>
  /\ UNCHANGED <<inputVars, opts, initVars, fs, backupArea, backups,
                 tmplIndex, promptVars, trixPresent, missingVars, processExit, pre>>

BackupFile ==
  /\ pc = "BackingUp"
  /\ Len(backups) < Len(filesToBackup)
  /\ LET path == filesToBackup[Len(backups) + 1]
     IN \E ok \in BOOLEAN :
          /\ Log(Event("backupFile", path, ok))
          /\ IF ok
               THEN /\ backups' = Append(backups, backupFile(path, fs))
                    /\ backupArea' =
                         IF Exists(fs[path]) THEN [backupArea EXCEPT ![path] = fs[path]]
                         ELSE backupArea
                    /\ pc' = IF Len(backups') = Len(filesToBackup)
                               THEN EndOfPhase("EnsureBackupDir") ELSE "BackingUp"
                    /\ UNCHANGED rollbackVars
               ELSE /\ Catch("backup")
                    /\ UNCHANGED <<backups, backupArea>>
  /\ UNCHANGED <<inputVars, opts, initVars, fs, dirs, filesToBackup,
                 tmplIndex, promptVars, trixPresent, missingVars, processExit, pre>>

\* getMissingPackages for both lists, before any installation.
ComputeMissing ==
  /\ pc = "ComputeMissing"
  /\ IF CanReadPackageJson(fs)
       THEN /\ missingPackages' = getMissingPackages(requiredPackages, fs[PackageJson])
            /\ missingDevPackages' = getMissingPackages(requiredDevPackages, fs[PackageJson])
            /\ pc' = AfterComputeMissing(missingPackages', missingDevPackages')
            /\ UNCHANGED rollbackVars
       ELSE /\ Catch("packages")
            /\ UNCHANGED missingVars
  /\ UNCHANGED <<inputVars, opts, initVars, fs, dirs, backupVars,
                 tmplIndex, promptVars, trixPresent, processExit, pre, events>>

InstallDeps ==
  /\ pc = "InstallDeps"
  /\ \E ok \in BOOLEAN :
       /\ Log(Event("installPackages", "deps", ok))
       /\ IF ok
            THEN /\ fs' = [fs EXCEPT ![PackageJson] = installPackages(missingPackages, FALSE, @)]
                 /\ pc' = AfterInstallDeps(missingDevPackages)
                 /\ UNCHANGED rollbackVars
            ELSE /\ Catch("packages")
                 /\ UNCHANGED fs
  /\ UNCHANGED <<inputVars, opts, initVars, dirs, backupVars,
                 tmplIndex, promptVars, trixPresent, missingVars, processExit, pre>>

InstallDevDeps ==
  /\ pc = "InstallDevDeps"
  /\ \E ok \in BOOLEAN :
       /\ Log(Event("installPackages", "devDeps", ok))
       /\ IF ok
            THEN /\ fs' = [fs EXCEPT ![PackageJson] = installPackages(missingDevPackages, TRUE, @)]
                 /\ pc' = EndOfPhase("ComputeMissing")
                 /\ UNCHANGED rollbackVars
            ELSE /\ Catch("packages")
                 /\ UNCHANGED fs
  /\ UNCHANGED <<inputVars, opts, initVars, dirs, backupVars,
                 tmplIndex, promptVars, trixPresent, missingVars, processExit, pre>>

\* updateTsConfig: throws when the file is missing or does not parse,
\* otherwise writes the merged document.
UpdateTsConfig ==
  /\ pc = "UpdateTsConfig"
  /\ IF fs[TsConfig].kind # "json" \/ updateTsConfigThrows(fs[TsConfig])
       THEN /\ Catch("tsconfig")
            /\ UNCHANGED <<fs, events>>
       ELSE \E ok \in BOOLEAN :
              /\ Log(Event("writeFile", TsConfig, ok))
              /\ IF ok
                   THEN /\ fs' = [fs EXCEPT ![TsConfig] = updateTsConfig(@)]
                        /\ pc' = EndOfPhase("UpdateTsConfig")
                        /\ UNCHANGED rollbackVars
                   ELSE /\ Catch("tsconfig")
                        /\ UNCHANGED fs
  /\ UNCHANGED <<inputVars, opts, initVars, dirs, backupVars,
                 tmplIndex, promptVars, trixPresent, missingVars, processExit, pre>>

\* PackageUtils.addScripts followed by PackageUtils.writePackageJson.
AddScripts ==
  /\ pc = "AddScripts"
  /\ IF ~CanReadPackageJson(fs)
       THEN /\ Catch("scripts")
            /\ UNCHANGED <<fs, events>>
       ELSE \E ok \in BOOLEAN :
              /\ Log(Event("writeFile", PackageJson, ok))
              /\ IF ok
                   THEN /\ fs' = [fs EXCEPT ![PackageJson] =
                                    writePackageJson(addScripts(Tx3Scripts, @))]
                        /\ pc' = EndOfPhase("AddScripts")
                        /\ UNCHANGED rollbackVars
                   ELSE /\ Catch("scripts")
                        /\ UNCHANGED fs
  /\ UNCHANGED <<inputVars, opts, initVars, dirs, backupVars,
                 tmplIndex, promptVars, trixPresent, missingVars, processExit, pre>>

\* createTx3Files, first part: createDirectory('tx3'), createDirectory('scripts');
\* n is the number of calls that succeeded.
CreateDirs ==
  /\ pc = "CreateDirs"
  /\ \E n \in 0..2 :
       /\ dirs' = dirs \cup (IF n >= 1 THEN {"tx3"} ELSE {})
                       \cup (IF n >= 2 THEN {"scripts"} ELSE {})
       /\ events' = events
            \o <<Event("createDirectory", "tx3", n >= 1)>>
            \o (IF n >= 1 THEN <<Event("createDirectory", "scripts", n >= 2)>> ELSE <<>>)
       /\ IF n = 2
            THEN /\ pc' = "WriteTemplates"
                 /\ UNCHANGED rollbackVars
            ELSE Catch("templates")
  /\ tmplIndex' = 1
  /\ UNCHANGED <<inputVars, opts, initVars, fs, backupVars,
                 promptVars, trixPresent, missingVars, processExit, pre>>

\* createTx3Files, second part: the three writeFile calls, one per step.
WriteTemplate ==
  /\ pc = "WriteTemplates"
  /\ tmplIndex <= Len(TemplatePaths)
  /\ LET path == TemplatePaths[tmplIndex]
     IN \E ok \in BOOLEAN :
          /\ Log(Event("writeFile", path, ok))
          /\ IF ok
               THEN /\ fs' = [fs EXCEPT ![path] = TemplateText]
                    /\ tmplIndex' = tmplIndex + 1
                    /\ pc' = IF tmplIndex' > Len(TemplatePaths)
                               THEN EndOfPhase("CreateDirs")
                               ELSE "WriteTemplates"
                    /\ UNCHANGED rollbackVars
               ELSE /\ Catch("templates")
                    /\ UNCHANGED <<fs, tmplIndex>>
  /\ UNCHANGED <<inputVars, opts, initVars, dirs, backupVars,
                 promptVars, trixPresent, missingVars, processExit, pre>>

\* setupDevnet inside its own try/catch: copy the devnet folder, then read
\* package.json, add the devnet:start script and write it.
SetupDevnet ==
  /\ pc = "SetupDevnet"
  /\ \E copied \in BOOLEAN, written \in BOOLEAN :
       LET ok == copied /\ written /\ CanReadPackageJson(fs)
       IN /\ dirs' = IF copied THEN dirs \cup {"devnet"} ELSE dirs
          /\ fs' = IF ok
                     THEN [fs EXCEPT ![PackageJson] = writePackageJson(addDevnetScript(@))]
                     ELSE fs
          /\ events' = events
               \o <<Event("copyDevnetFolder", "devnet", copied)>>
               \o (IF copied /\ CanReadPackageJson(fs)
                     THEN <<Event("writeFile", PackageJson, written)>> ELSE <<>>)
          /\ pc' = AfterSetupDevnet(ok)
          /\ IF pc' = "RollingBack"
               THEN rbIndex' = 1 /\ errStep' = "devnet" /\ UNCHANGED restored
               ELSE UNCHANGED rollbackVars
  /\ UNCHANGED <<inputVars, opts, initVars, backupVars,
                 tmplIndex, promptVars, trixPresent, missingVars, processExit, pre>>

\* One iteration of the rollback loop: restoreFromBackup inside try/catch.
Restore ==
  /\ pc = "RollingBack"
  /\ rbIndex <= Len(backups)
  /\ \E ok \in BOOLEAN :
       /\ Log(Event("restoreFromBackup", backups[rbIndex].originalPath, ok))
       /\ fs' = IF ok THEN restoreFromBackup(backups[rbIndex], fs, backupArea) ELSE fs
       /\ restored' = restored \cup {rbIndex}
       /\ rbIndex' = RollbackNext(rbIndex, ok)
  /\ UNCHANGED <<inputVars, opts, pc, initVars, dirs, backupVars, errStep,
                 tmplIndex, promptVars, trixPresent, missingVars, processExit, pre>>

\* After the loop: process.exit(1).
ExitFailed ==
  /\ pc = "RollingBack"
  /\ rbIndex > Len(backups)
  /\ pc' = "Failed"
  /\ processExit' = ExitAfterRollback
  /\ UNCHANGED <<inputVars, opts, initVars, fs, dirs, backupVars, rollbackVars,
                 tmplIndex, promptVars, trixPresent, missingVars, pre, events>>

\* ---------------------------------------------------- initCommand, by step
installVars ==
  <<fs, dirs, backupVars, rollbackVars, tmplIndex, promptVars, trixPresent,
    missingVars, pre>>

\* The options initCommand passes to installCommand.
InitInstallOptions(r) ==
  [dryRun |-> FALSE, force |-> TRUE, fresh |-> TRUE, verbose |-> (r = 2)]

\* FileUtils.directoryExists(projectName) as the catch block of initCommand
\* evaluates it: the relative name is resolved against the working
\* directory, so from inside the project it is not the project directory
\* that is looked for.
TargetVisible(dir, exists) == dir = "start" /\ exists

\* The project name: asked for when the options carry none (the prompt
\* accepts only well-formed names), else taken from the options as it is.
InitStart ==
  /\ ipc = "Start"
  /\ IF iopts.projectName = "none"
       THEN /\ projectName' = "ok"
            /\ Log(Event("prompt", "name", TRUE))
       ELSE /\ projectName' = iopts.projectName
            /\ UNCHANGED events
  /\ ipc' = "CheckDir"
  /\ UNCHANGED <<inputVars, opts, pc, installVars, targetExists, cwd, processExit>>

\* Where initCommand goes after directoryExists(projectName): a variant
\* that goes on over a directory that is already there.
AfterCheckDirIgnoringTarget(exists, dryRun) ==
  IF dryRun THEN "Previewed" ELSE "Confirming"

\* Where initCommand goes after directoryExists(projectName).
AfterCheckDir(exists, dryRun) ==
  IF exists THEN "Exited"
  ELSE IF dryRun THEN "Previewed" ELSE "Confirming"

\* The existence check, then the dry-run preview.
InitCheckDir ==
  /\ ipc = "CheckDir"
  /\ ipc' = AfterCheckDir(targetExists, iopts.dryRun)
  /\ processExit' = IF ipc' = "Exited" THEN "1" ELSE processExit
  /\ IF ipc' = "Previewed"
       THEN Log(Event("preview", "init", TRUE))
       ELSE UNCHANGED events
  /\ UNCHANGED <<inputVars, opts, pc, installVars, projectName, targetExists, cwd>>

InitConfirm ==
  /\ ipc = "Confirming"
  /\ \E confirmInit \in BOOLEAN :
       /\ ipc' = IF confirmInit THEN "Creating" ELSE "Cancelled"
       /\ Log(Event("prompt", "confirmInit", confirmInit))
  /\ UNCHANGED <<inputVars, opts, pc, installVars, projectName, targetExists, cwd,
                 processExit>>

\* initializeShadcnProject, first command: mkdirSync (revision 1) or
\* create-next-app (revision 2, which on failure may leave the directory).
InitCreate ==
  /\ ipc = "Creating"
  /\ \E ok \in BOOLEAN, left \in BOOLEAN :
       /\ (ok \/ rev = 1) => left = ok
       /\ targetExists' = left
       /\ Log(Event(IF rev = 1 THEN "mkdir" ELSE "generator",
                    IF rev = 1 THEN "target" ELSE "create-next-app", ok))
       /\ ipc' = IF ok THEN "Shadcn" ELSE "Cleanup"
  /\ UNCHANGED <<inputVars, opts, pc, installVars, projectName, cwd, processExit>>

\* initializeShadcnProject, second command: shadcn init in the directory.
InitShadcn ==
  /\ ipc = "Shadcn"
  /\ \E ok \in BOOLEAN :
       /\ Log(Event("generator", "shadcn", ok))
       /\ IF ok
            THEN /\ fs' \in GeneratedProjects
                 /\ ipc' = "Chdir"
            ELSE /\ UNCHANGED fs
                 /\ ipc' = "Cleanup"
  /\ dirs' = DirsOf(fs')
  /\ UNCHANGED <<inputVars, opts, pc, backupVars, rollbackVars, tmplIndex,
                 promptVars, trixPresent, missingVars, pre, projectName,
                 targetExists, cwd, processExit>>

\* process.chdir(projectName), then the call of installCommand.
InitCallInstall ==
  /\ ipc = "Chdir"
  /\ cwd' = "project"
  /\ opts' = InitInstallOptions(rev)
  /\ pre' = fs
  /\ pc' = "Validating"
  /\ ipc' = "Installing"
  /\ UNCHANGED <<inputVars, fs, dirs, backupVars, rollbackVars, tmplIndex,
                 promptVars, trixPresent, missingVars, projectName, targetExists,
                 processExit, events>>

\* installCommand returned: initCommand prints the next steps and returns.
InitInstallReturned ==
  /\ ipc = "Installing"
  /\ pc \in {"Completed", "Cancelled", "Previewed"}
  /\ ipc' = "Succeeded"
  /\ UNCHANGED <<inputVars, opts, pc, installVars, projectName, targetExists, cwd,
                 processExit, events>>

\* installCommand threw: the catch block of initCommand is entered.
InitInstallThrew ==
  /\ ipc = "Installing"
  /\ pc = "Thrown"
  /\ ipc' = "Cleanup"
  /\ UNCHANGED <<inputVars, opts, pc, installVars, projectName, targetExists, cwd,
                 processExit, events>>

\* The catch block of initCommand: remove the directory if it is there
\* (a failure of the removal is caught), then process.exit(1).
InitCleanup ==
  /\ ipc = "Cleanup"
  /\ IF TargetVisible(cwd, targetExists)
       THEN \E ok \in BOOLEAN :
              /\ Log(Event("removeDirectory", "target", ok))
              /\ targetExists' = ~ok
              /\ fs' = IF ok THEN NoProject ELSE fs
              /\ dirs' = IF ok THEN {} ELSE dirs
       ELSE \E nested \in BOOLEAN, ok \in BOOLEAN :
              \* From inside the project the name denotes a subdirectory the
              \* generator may have made under that name (app, public, ...).
              /\ nested \/ ok
              /\ cwd = "start" => ~nested
              /\ IF nested
                   THEN Log(Event("removeDirectory", "target", ok))
                   ELSE UNCHANGED events
              /\ UNCHANGED <<targetExists, fs, dirs>>
  /\ ipc' = "Exited"
  /\ processExit' = "1"
  /\ UNCHANGED <<inputVars, opts, pc, backupVars, rollbackVars, tmplIndex,
                 promptVars, trixPresent, missingVars, pre, projectName, cwd>>

\* ------------------------------------------------- the functions on their own
\* What the variables of the commands hold when a function is applied on
\* its own: no command runs.
NoCommand ==
  /\ cmd = "none"
  /\ rev = 1
  /\ trixPresent = FALSE
  /\ opts = NoOptions
  /\ iopts = NoInitOptions
  /\ fs = NoProject
  /\ pc = "Idle"
  /\ ipc = "none"
  /\ targetExists = FALSE
  /\ targetBefore = FALSE
  /\ cwd = "start"
  /\ dirs = {}
  /\ pre = fs
  /\ backupArea = NoProject
  /\ backups = <<>>
  /\ filesToBackup = <<>>
  /\ rbIndex = 1
  /\ tmplIndex = 1
  /\ validation = NoValidation
  /\ installTrix = FALSE
  /\ includeDevnet = FALSE
  /\ missingPackages = {}
  /\ missingDevPackages = {}
  /\ projectName = "none"
  /\ processExit = "none"
  /\ events = <<>>
  /\ errStep = "none"
  /\ restored = {}

commandVars ==
  <<cmd, rev, opts, iopts, pc, initVars, installVars, targetBefore, processExit,
    events>>

FunctionInit ==
  /\ NoCommand
  /\ fn \in {"generateNextConfig", "updateTsConfig"}
  /\ input \in IF fn = "generateNextConfig"
                 THEN ConfigTexts \cup {Undefined, EmptyString}
                 ELSE ParseableTs
  /\ outputs = <<>>

\* The next.config.js a call of generateNextConfig is given: the text the
\* call before it returned, else the configuration the run started with.
NextConfigFile ==
  IF outputs # <<>> THEN outputs[Len(outputs)].value ELSE input

\* One call of generateNextConfig on the existing configuration, and one
\* more on the text that call returned.
GenerateNextConfig ==
  /\ fn = "generateNextConfig"
  /\ outputs = <<>> \/ (Len(outputs) = 1 /\ outputs[1].ok)
  /\ outputs' = Append(outputs, generateNextConfig(NextConfigFile))
  /\ UNCHANGED <<commandVars, fn, input>>

\* The tsconfig.json a call of updateTsConfig reads: what the last call
\* that did not throw has written, else the document the run started with.
TsConfigFile ==
  IF outputs # <<>> /\ outputs[Len(outputs)].ok
    THEN outputs[Len(outputs)].value
    ELSE input

\* One call of updateTsConfig on a parseable tsconfig.json, up to two in a
\* row.
MergeTsConfig ==
  /\ fn = "updateTsConfig"
  /\ Len(outputs) < 2
  /\ outputs' = Append(outputs,
                       IF updateTsConfigThrows(TsConfigFile)
                         THEN Thrown("TypeError")
                         ELSE Returned(updateTsConfig(TsConfigFile)))
  /\ UNCHANGED <<commandVars, fn, input>>

FunctionNext == GenerateNextConfig \/ MergeTsConfig

FunctionSpec == FunctionInit /\ [][FunctionNext]_vars

\* ------------------------------------------------------------ specification
InstallNext ==
  \/ Validate
  \/ ShowWarnings
  \/ DryRunCheck
  \/ ShowDryRunPreview
  \/ TrixPrompt
  \/ DevnetPrompt
  \/ Confirm
  \/ InstallTrix
  \/ EnsureBackupDir
  \/ BackupFile
  \/ ComputeMissing
  \/ InstallDeps
  \/ InstallDevDeps
  \/ UpdateTsConfig
  \/ AddScripts
  \/ CreateDirs
  \/ WriteTemplate
  \/ SetupDevnet
  \/ Restore
  \/ ExitFailed

InitNext ==
  \/ InitStart
  \/ InitCheckDir
  \/ InitConfirm
  \/ InitCreate
  \/ InitShadcn
  \/ InitCallInstall
  \/ InitInstallReturned
  \/ InitInstallThrew
  \/ InitCleanup

Next == InstallNext \/ InitNext

Spec == Init /\ [][Next]_vars

\* The process is sequential and every call returns or throws: a run that
\* can take a step takes it.
FairSpec == Spec /\ WF_vars(Next)

TypeOK ==
  /\ pc \in {"Idle", "Validating", "Warnings", "DryRunCheck", "Previewing",
             "TrixPrompt", "DevnetPrompt", "Confirming", "InstallTrix",
             "EnsureBackupDir", "BackingUp", "ComputeMissing", "InstallDeps",
             "InstallDevDeps", "UpdateTsConfig", "AddScripts", "CreateDirs",
             "WriteTemplates", "SetupDevnet", "RollingBack", "Completed",
             "Cancelled", "Previewed", "Thrown", "Failed"}
  /\ ipc \in {"none", "Start", "CheckDir", "Confirming", "Creating", "Shadcn",
              "Chdir", "Installing", "Cleanup", "Succeeded", "Cancelled",
              "Previewed", "Exited"}
  /\ processExit \in {"none", "1"}
  /\ rbIndex \in 1..(Len(backups) + 1)
  /\ Len(backups) <= Len(filesToBackup)

\* ------------------------------------------------------------- vocabulary
BackupOps == {"ensureBackupDir", "backupFile"}

\* Writes into the project and package-manager invocations.
MutationOps == {"installPackages", "writeFile", "createDirectory", "copyDevnetFolder"}

\* Commands that install something from outside.
InstallOps == {"installPackages", "installTrix", "generator"}

\* The steps of the Mutating phase that are not best-effort.
MutatingSteps == {"packages", "tsconfig", "scripts", "templates"}

Happened(ops) == \E i \in DOMAIN events : events[i].op \in ops

RestoreEvents == { i \in DOMAIN events : events[i].op = "restoreFromBackup" }

RestoreFailed == \E i \in RestoreEvents : ~events[i].ok

\* The run wrote or overwrote the file p (package.json is also written by
\* the package manager).
Touched(p) ==
  \E i \in DOMAIN events :
    /\ events[i].ok
    /\ \/ events[i].op = "writeFile" /\ events[i].arg = p
       \/ events[i].op = "installPackages" /\ p = PackageJson

ConfigUnchanged ==
  fs[PackageJson] = pre[PackageJson] /\ fs[TsConfig] = pre[TsConfig]

FailedInMutating == pc = "Failed" /\ errStep \in MutatingSteps

\* ------------------------------------------------------------------ claims

C2_CreatedFilesRemoved ==
  (FailedInMutating /\ ~RestoreFailed) =>
    \A p \in Paths : ~Exists(pre[p]) => ~Exists(fs[p])

\* C3: before Mutating completes, every project file the run has written or
\* overwritten so far, and that existed before, has its pre-mutation bytes
\* in the backup area.
C3_TouchedFilesBackedUp ==
  pc # "Completed" =>
    \A p \in Paths : (Touched(p) /\ Exists(pre[p])) => backupArea[p] = pre[p]

\* C4: every backup creation (ensureBackupDir, backupFile) comes before the
\* first write to a project file and the first package-manager invocation.
C4_BackupBeforeMutation ==
  \A i, j \in DOMAIN events :
    (events[i].op \in BackupOps /\ events[j].op \in MutationOps) => i < j

\* A completed run that backed up both files and installed packages.
C4_Witness ==
  /\ pc = "Completed"
  /\ Len(backups) = 2
  /\ Happened({"installPackages"})
  /\ Happened({"writeFile"})

\* C5: when validation returns isValid = false, installCommand throws, and
\* no backup directory, no backup, no package-manager or installer
\* invocation and no write to the project was made.
C5_InvalidProjectUntouched ==
  (pc \notin {"Idle", "Validating"} /\ ~validation.isValid) =>
    /\ pc = "Thrown"
    /\ ~Happened(BackupOps \cup MutationOps \cup {"installTrix", "restoreFromBackup"})
    /\ backups = <<>>
    /\ BackupDir \notin dirs
    /\ ipc # "Exited" => (fs = pre /\ dirs = DirsOf(pre))

\* A project with package.json judged invalid: the run has thrown.
C5_Witness ==
  /\ pc = "Thrown"
  /\ ~validation.isValid
  /\ Exists(fs[PackageJson])
  /\ cmd = "install"

\* C6: with the dry-run flag an install run, and an init run, writes
\* nothing and issues no package-manager, generator or installer command.
C6_DryRunWritesNothing ==
  /\ (cmd = "install" /\ opts.dryRun) =>
       /\ ~Happened(BackupOps \cup MutationOps \cup InstallOps \cup {"restoreFromBackup"})
       /\ fs = pre /\ dirs = DirsOf(pre)
       /\ backups = <<>> /\ backupArea = NoProject
  /\ (cmd = "init" /\ iopts.dryRun) =>
       /\ ~Happened(BackupOps \cup MutationOps \cup InstallOps \cup {"mkdir", "removeDirectory"})
       /\ pc = "Idle"
       /\ fs = NoProject /\ dirs = {}

\* The preview of a project missing tx3-sdk and tx3-trp.
C6_Witness ==
  /\ pc = "Previewed"
  /\ opts.dryRun
  /\ missingPackages = requiredPackages
  /\ Happened({"preview"})

\* C7: when the user declines the 'already installed' prompt or the final
\* confirmation, installCommand returns normally with no backup, no
\* mutation and no external install command, the trix installer included.
C7_DeclineIsNoOp ==
  (\E i \in DOMAIN events :
      /\ events[i].op = "prompt"
      /\ events[i].arg \in {"proceed", "confirmInstall"}
      /\ ~events[i].ok) =>
    /\ pc = "Cancelled"
    /\ processExit = "none"
    /\ ~Happened(BackupOps \cup MutationOps \cup {"installPackages", "installTrix"})
    /\ backups = <<>>
    /\ fs = pre /\ dirs = DirsOf(pre)

\* The final confirmation declined after the user opted into trix.
C7_Witness ==
  /\ pc = "Cancelled"
  /\ installTrix
  /\ events[Len(events)] = Event("prompt", "confirmInstall", FALSE)

\* C8: once a critical step of the Mutating phase has raised an error, the
\* run is rolling back or has failed (never Completed); while rolling back
\* it can take its next step, and when it has failed restoreFromBackup was
\* attempted on every BackupEntry and the process exited with code 1.
C8_ErrorLeadsToRollbackAndFailure ==
  errStep \in MutatingSteps =>
    /\ pc \in {"RollingBack", "Failed"}
    /\ pc = "RollingBack" =>
         /\ restored = 1..(rbIndex - 1)
         /\ ENABLED (Restore \/ ExitFailed)
    /\ pc = "Failed" =>
         /\ restored = DOMAIN backups
         /\ processExit = "1"

\* A failed tsconfig merge after two backups, both restores attempted.
C8_Witness ==
  /\ pc = "Failed"
  /\ errStep = "tsconfig"
  /\ Len(backups) = 2
  /\ restored = {1, 2}
  /\ processExit = "1"

\* C9: a failed restoreFromBackup does not end the rollback loop: there is
\* one restore attempt for each entry before the loop position, and the
\* run ends only after an attempt on every entry, with exit code 1.
C9_RestoreFailureDoesNotStopLoop ==
  RestoreFailed =>
    /\ pc \in {"RollingBack", "Failed"}
    /\ Cardinality(RestoreEvents) = rbIndex - 1
    /\ \A k \in 1..(rbIndex - 1) :
         \E i \in RestoreEvents : events[i].arg = backups[k].originalPath
    /\ pc = "Failed" => (rbIndex = Len(backups) + 1 /\ processExit = "1")

\* The restore of package.json failed and tsconfig.json was still restored.
C9_Witness ==
  /\ pc = "Failed"
  /\ Len(backups) = 2
  /\ \E i \in RestoreEvents :
       /\ events[i] = Event("restoreFromBackup", PackageJson, FALSE)
       /\ i < Len(events)
       /\ events[i + 1] = Event("restoreFromBackup", TsConfig, TRUE)
  /\ fs[TsConfig] = pre[TsConfig]
  /\ fs[PackageJson] # pre[PackageJson]

TrixFailed == \E i \in DOMAIN events : events[i] = Event("installTrix", "tx3up", FALSE)

\* setupDevnet failed: the copy failed, or the write that follows it did.
DevnetFailed ==
  \E i \in DOMAIN events :
    /\ events[i].op = "copyDevnetFolder"
    /\ \/ ~events[i].ok
       \/ i < Len(events) /\ ~events[i + 1].ok

\* C10: a failure of the trix installation or of the devnet setup never
\* enters the rollback; the run goes on with the remaining steps and, when
\* no critical step fails, ends Completed without a failure exit.
C10_BestEffortFailureIsHarmless ==
  /\ errStep \notin {"trix", "devnet"}
  /\ (TrixFailed /\ errStep = "none") =>
       /\ pc \in {"EnsureBackupDir", "BackingUp", "ComputeMissing", "InstallDeps",
                  "InstallDevDeps", "UpdateTsConfig", "AddScripts", "CreateDirs",
                  "WriteTemplates", "SetupDevnet", "Completed"}
       /\ processExit = "none"
  /\ DevnetFailed => (pc = "Completed" /\ processExit = "none")

\* A run in which both best-effort steps failed and that completed.
C10_Witness ==
  /\ pc = "Completed"
  /\ TrixFailed
  /\ DevnetFailed
  /\ \A p \in Range(TemplatePaths) : fs[p] = TemplateText

\* An initCommand run created the target directory.
TargetCreated == cmd = "init" /\ ~targetBefore /\ Happened({"mkdir", "generator"})

RemoveFailed == \E i \in DOMAIN events : events[i] = Event("removeDirectory", "target", FALSE)

\* C11 (as stated): every init run that fails after the target directory
\* was created ends with that directory gone.  (Runs in which the removal
\* itself failed are left out, so that a violation is the code's doing.)
C11_FailedInitRemovesTarget ==
  (TargetCreated /\ processExit = "1" /\ ~RemoveFailed) => ~targetExists

\* C12: when the target directory exists at the start of init, the run
\* ends in a failure exit straight after the existence check; no generator
\* and no install step runs (at most the name was asked for), and the
\* directory is still there, untouched.
C12_ExistingTargetRefused ==
  (cmd = "init" /\ targetBefore) =>
    /\ targetExists
    /\ fs = NoProject
    /\ pc = "Idle"
    /\ \A i \in DOMAIN events : events[i] = Event("prompt", "name", TRUE)
    /\ ipc \in {"Start", "CheckDir", "Exited"}
    /\ ipc = "Exited" <=> processExit = "1"

\* An init run refused because its target was already there.
C12_Witness ==
  /\ cmd = "init"
  /\ targetBefore
  /\ ipc = "Exited"
  /\ processExit = "1"

\* The prompts that installCommand issues.
InstallPrompts == {"proceed", "shouldInstallTrix", "shouldIncludeDevnet", "confirmInstall"}

\* C13 (as stated): when init invokes install (fresh, force), install is
\* in its backup phase without having issued any interactive prompt.
C13_InitInstallIsPromptFree ==
  (cmd = "init" /\ pc \in {"EnsureBackupDir", "BackingUp"}) =>
    \A i \in DOMAIN events :
      events[i].op = "prompt" => events[i].arg \notin InstallPrompts

\* The Next.js configuration file, under either of its names.
NextConfigPaths == {"next.config.js", "next.config.ts"}

\* C20 (as stated): a successful install run has written next.config.js
\* or next.config.ts (merged or created).
C20_CompletedRunWritesNextConfig ==
  pc = "Completed" =>
    \E i \in DOMAIN events :
      /\ events[i].op = "writeFile"
      /\ events[i].arg \in NextConfigPaths
      /\ events[i].ok

\* ------------------------------------------- claims on generateNextConfig
Generated == fn = "generateNextConfig" /\ outputs # <<>>

\* generateNextConfig merged into an existing configuration.
Merged == Generated /\ input \notin {Undefined, EmptyString} /\ outputs[1].ok

Significant ==
  {"const nextConfig", "module.exports", "{", "}", ",", "webpack:",
   "reactStrictMode: true"}

\* Reads the significant pieces of a module: a declaration (braces before
\* it belong to a comment), the opening
\* brace of its object literal, properties separated by commas (a value may
\* hold nested braces), the closing brace, and no brace, property or comma
\* after it.  Yields whether the module has that shape and whether
\* 'webpack:' is a key of the object literal.
RECURSIVE ReadModule(_, _, _, _, _)
ReadModule(toks, i, state, depth, webpack) ==
  IF i > Len(toks)
    THEN [valid |-> state = "done", webpack |-> webpack]
  ELSE
    LET t == toks[i]
        Go(st, d, w) == ReadModule(toks, i + 1, st, d, w)
        Bad == [valid |-> FALSE, webpack |-> webpack]
    IN  CASE state = "before" ->
               IF t \in {"const nextConfig", "module.exports"}
                 THEN Go("declared", 0, webpack)
               ELSE IF t \in {"{", "}"} THEN Go("before", 0, webpack)
               ELSE Bad
          [] state = "declared" ->
               IF t = "{" THEN Go("key", 1, webpack) ELSE Bad
          [] state = "key" ->
               IF t = "reactStrictMode: true" THEN Go("value", 1, webpack)
               ELSE IF t = "webpack:" THEN Go("value", 1, TRUE)
               ELSE IF t = "}" THEN Go("done", 0, webpack)
               ELSE Bad
          [] state = "value" /\ depth = 1 ->
               IF t = "," THEN Go("key", 1, webpack)
               ELSE IF t = "}" THEN Go("done", 0, webpack)
               ELSE IF t = "{" THEN Go("value", 2, webpack)
               ELSE Bad
          [] state = "value" /\ depth > 1 ->
               IF t = "{" THEN Go("value", depth + 1, webpack)
               ELSE IF t = "}" THEN Go("value", depth - 1, webpack)
               ELSE Go("value", depth, webpack)
          [] state = "done" ->
               IF t \in {"const nextConfig", "module.exports"}
                 THEN Go("done", 0, webpack) ELSE Bad

Shape(text) ==
  ReadModule(SelectSeq(text, LAMBDA t : t \in Significant), 1, "before",
             0, FALSE)

\* C15 (as stated): for every existing configuration whose object is a
\* single-level object literal without 'webpack:', the merge returns a
\* module of the same shape with the webpack block inside the literal.
C15_MergeKeepsModuleValid ==
  (Generated /\ input # Undefined /\ Shape(input) = [valid |-> TRUE, webpack |-> FALSE])
    => /\ outputs[1].ok
       /\ Shape(outputs[1].value) = [valid |-> TRUE, webpack |-> TRUE]

\* The line of the declaration: the first that names the configuration
\* object; 0 when there is none.
DeclarationLine(lines) ==
  IF \E i \in DOMAIN lines : IsDeclaration(lines[i])
    THEN CHOOSE i \in DOMAIN lines :
           IsDeclaration(lines[i]) /\ \A k \in 1..(i - 1) : ~IsDeclaration(lines[k])
    ELSE 0

\* The position <<line, piece>> of the closing brace that matches the first
\* opening brace at or after position <<i, j>>; <<0, 0>> when there is none.
RECURSIVE MatchingBrace(_, _, _, _)
MatchingBrace(lines, i, j, depth) ==
  IF i > Len(lines) THEN <<0, 0>>
  ELSE IF j > Len(lines[i]) THEN MatchingBrace(lines, i + 1, 1, depth)
  ELSE IF lines[i][j] = "{" THEN MatchingBrace(lines, i, j + 1, depth + 1)
  ELSE IF lines[i][j] = "}" /\ depth = 1 THEN <<i, j>>
  ELSE IF lines[i][j] = "}" /\ depth > 1 THEN MatchingBrace(lines, i, j + 1, depth - 1)
  ELSE MatchingBrace(lines, i, j + 1, depth)

MatchingLine(lines) ==
  IF DeclarationLine(lines) = 0 THEN 0
  ELSE MatchingBrace(lines, DeclarationLine(lines), 1, 0)[1]

\* The block went in immediately before line k of the input.
InsertedBefore(k) ==
  /\ k \in DOMAIN Split(input)
  /\ Split(outputs[1].value) =
       SubSeq(Split(input), 1, k - 1) \o webpackConfig
         \o SubSeq(Split(input), k, Len(Split(input)))

RECURSIVE NetBraces(_, _, _)
NetBraces(lines, a, b) ==
  IF a > b THEN 0
  ELSE MatchCount(lines[a], "{") - MatchCount(lines[a], "}") + NetBraces(lines, a + 1, b)

\* The first line, at or after the declaration, that holds an opening
\* brace; 0 when there is none.
FirstBraceLine(lines) ==
  LET d == DeclarationLine(lines)
      B == { i \in DOMAIN lines : d > 0 /\ i >= d /\ LineIncludes(lines[i], "{") }
  IN  IF B = {} THEN 0 ELSE CHOOSE i \in B : \A k \in B : i <= k

\* The first line from FirstBraceLine on up to whose end as many braces
\* were closed as opened; 0 when there is none.
BalanceLine(lines) ==
  LET b == FirstBraceLine(lines)
      Z == { i \in DOMAIN lines : b > 0 /\ i >= b /\ NetBraces(lines, b, i) = 0 }
  IN  IF Z = {} THEN 0 ELSE CHOOSE i \in Z : \A k \in Z : i <= k

\* The matching closing brace is the last brace of its line, and no closing
\* brace precedes the first opening brace of FirstBraceLine.
BracesEndLines(lines) ==
  LET b == FirstBraceLine(lines)
      m == MatchingBrace(lines, DeclarationLine(lines), 1, 0)
      first == CHOOSE j \in DOMAIN lines[b] :
                 lines[b][j] = "{" /\ \A k \in 1..(j - 1) : lines[b][k] # "{"
  IN  /\ b > 0
      /\ \A k \in 1..(first - 1) : lines[b][k] # "}"
      /\ m[1] > 0
      /\ \A k \in (m[2] + 1)..Len(lines[m[1]]) : lines[m[1]][k] \notin {"{", "}"}

C17_UnparsableConfigFails ==
  (Generated /\ input # Undefined
     /\ (DeclarationLine(Split(input)) = 0 \/ BalanceLine(Split(input)) = 0))
    => /\ ~outputs[1].ok
       /\ outputs[1].value = Undefined

\* C17 (amended): the same, for an existing configuration that is not the
\* empty string.
C17_NonEmptyUnparsableConfigFails ==
  (Generated /\ input \notin {Undefined, EmptyString}
     /\ (DeclarationLine(Split(input)) = 0 \/ BalanceLine(Split(input)) = 0))
    => /\ ~outputs[1].ok
       /\ outputs[1].value = Undefined
       /\ outputs[1].error \in {WebpackConflict, CouldNotParse, NoInsertionPoint}

\* A configuration whose object is opened and never closed.
C17_Witness ==
  /\ Generated
  /\ DeclarationLine(Split(input)) = 1
  /\ FirstBraceLine(Split(input)) = 1
  /\ BalanceLine(Split(input)) = 0
  /\ outputs[1].error = NoInsertionPoint

\* C29: generateNextConfig applied to a text it returned, a new
\* configuration or a merged one, fails with the webpack-conflict error and
\* returns no text; no text ever holds the 'webpack:' key of the block twice.
C29_OwnOutputIsConflict ==
  (fn = "generateNextConfig" /\ Len(outputs) = 2) =>
    /\ outputs[2] = [ok |-> FALSE, value |-> Undefined, error |-> WebpackConflict]
    /\ Cardinality({ j \in DOMAIN outputs[1].value :
                       outputs[1].value[j] = "webpack:" }) = 1

\* The second call on a merged configuration of three lines.
C29_Witness ==
  /\ Merged
  /\ Len(Split(input)) = 3
  /\ Len(outputs) = 2
  /\ outputs[2].error = WebpackConflict

\* The block as the template literal spells it, each line after two spaces.
IndentedBlock ==
  LET block == Split(nextConfigWebpackTemplate)
  IN  [i \in DOMAIN block |-> <<"  ">> \o block[i]]

\* C30: a merge into a non-empty existing configuration only inserts lines:
\* the lines of the text returned are the lines of the existing one with
\* the lines of the block, each after two spaces, as one run at one index;
\* every existing line is kept as it was, in its place in the order.
C30_MergeOnlyInsertsLines ==
  Merged =>
    LET before == Split(input)
        after == Split(outputs[1].value)
        n == Len(IndentedBlock)
    IN  /\ Len(after) = Len(before) + n
        /\ \E at \in 0..Len(before) :
             /\ \A i \in 1..at : after[i] = before[i]
             /\ \A i \in 1..n : after[at + i] = IndentedBlock[i]
             /\ \A i \in (at + 1)..Len(before) : after[n + i] = before[i]

\* A merge into a configuration of three lines whose closing brace is on the
\* second: one line before the block and two after it.
C30_Witness ==
  /\ Merged
  /\ Len(Split(input)) = 3
  /\ Split(outputs[1].value)[1] = Split(input)[1]
  /\ Split(outputs[1].value)[2] = IndentedBlock[1]
  /\ Split(outputs[1].value)[Len(IndentedBlock) + 3] = Split(input)[3]

\* --------------------------------------------------- claims on updateTsConfig
\* C18: for every parseable tsconfig document, applying the merge twice
\* yields the same as applying it once.
C18_MergeIsIdempotent ==
  (fn = "updateTsConfig" /\ Len(outputs) = 2) => outputs[2] = outputs[1]

\* Two merges of a document with a user mapping and a stale @tx3 mapping,
\* written in another layout: the first one changed it.
C18_Witness ==
  /\ fn = "updateTsConfig"
  /\ Len(outputs) = 2
  /\ outputs[2].ok
  /\ input.fmt = "orig"
  /\ UserKeyNames[1] \in DOMAIN input.paths
  /\ "@tx3" \in DOMAIN input.paths
  /\ outputs[1].value.paths # input.paths

\* After the merge the two mappings are set and every other key of the
\* document has the value it had before.
MappingsSetOthersKept(before, after) ==
  /\ after.top = "object"
  /\ after.co = "object"
  /\ after.pathsKind = "object"
  /\ after.paths["@tx3/*"] = "./tx3/bindings/*"
  /\ after.paths["@tx3"] = "./tx3/bindings"
  /\ DOMAIN after.paths = DOMAIN before.paths \cup {"@tx3/*", "@tx3"}
  /\ \A k \in DOMAIN before.paths \ {"@tx3/*", "@tx3"} : after.paths[k] = before.paths[k]
  /\ after.other = before.other
  /\ after.coOther = before.coOther

\* C19 (as stated): for every parseable tsconfig document the merge sets
\* the two @tx3 mappings and leaves every other key as it was.
C19_MergeSetsMappingsOnly ==
  (fn = "updateTsConfig" /\ outputs # <<>>) =>
    /\ outputs[1].ok
    /\ MappingsSetOthersKept(input, outputs[1].value)

\* The value is absent, falsy or an object.
ObjectOrMissing(kind) == kind \in {"absent", "falsy", "object"}

\* C19 (amended): the same, for every parseable tsconfig document whose
\* top-level value is an object and whose compilerOptions and
\* compilerOptions.paths are each absent, falsy or an object.
C19_MergeSetsMappingsOnlyInObjects ==
  (fn = "updateTsConfig" /\ outputs # <<>>
     /\ input.top = "object" /\ ObjectOrMissing(input.co)
     /\ ObjectOrMissing(input.pathsKind)) =>
    /\ outputs[1].ok
    /\ MappingsSetOthersKept(input, outputs[1].value)

\* A merge into a document with other keys at each level and a stale @tx3
\* mapping.
C19_Witness ==
  /\ fn = "updateTsConfig"
  /\ outputs # <<>>
  /\ outputs[1].ok
  /\ input.other # EmptyMap
  /\ input.coOther # EmptyMap
  /\ UserKeyNames[1] \in DOMAIN input.paths
  /\ "@tx3" \in DOMAIN input.paths
  /\ input.paths["@tx3"] = "custom"
  /\ outputs[1].value.paths["@tx3"] = "./tx3/bindings"

\* ------------------------------------------------ claims on the later steps
\* The script step of the run succeeded and nothing was rolled back.
ScriptsWritten ==
  /\ errStep = "none"
  /\ pc \in {"CreateDirs", "WriteTemplates", "SetupDevnet", "Completed"}

\* setupDevnet succeeded: the copy and the write that follows it.
DevnetSetUp ==
  \E i \in DOMAIN events :
    /\ events[i] = Event("copyDevnetFolder", "devnet", TRUE)
    /\ i < Len(events)
    /\ events[i + 1] = Event("writeFile", PackageJson, TRUE)

\* The scripts of package.json: those named in managed hold their
\* canonical command, every other script of before is as it was.
ScriptsMerged(managed) ==
  LET before == pre[PackageJson].scripts
      after == fs[PackageJson].scripts
  IN  /\ \A n \in DOMAIN before \ managed :
           n \in DOMAIN after /\ after[n] = before[n]
      /\ \A n \in managed \cap {"tx3:generate", "watch:tx3", "dev"} :
           n \in DOMAIN after /\ after[n] = Tx3Scripts[n]
      /\ \A n \in managed \cap {"devnet:start"} :
           n \in DOMAIN after /\ after[n] = "cd devnet && dolos daemon"

PerformedActions ==
  (IF Happened({"installTrix"}) THEN {<<"trix", "tx3up">>} ELSE {})
    \cup (IF Happened({"copyDevnetFolder"}) THEN {<<"devnet", "copy">>} ELSE {})
    \cup (IF DevnetSetUp THEN {<<"devnet", DevnetScriptName>>} ELSE {})
    \cup { <<"package", q>> :
             q \in (fs[PackageJson].deps \cup fs[PackageJson].devDeps)
                     \ (pre[PackageJson].deps \cup pre[PackageJson].devDeps) }
    \cup { <<"script", n>> :
             n \in { m \in DOMAIN Tx3Scripts :
                       /\ m \in DOMAIN fs[PackageJson].scripts
                       /\ fs[PackageJson].scripts[m] = Tx3Scripts[m]
                       /\ Touched(PackageJson) } }
    \cup { <<"file", q>> : q \in { t \in Range(TemplatePaths) : Touched(t) } }
    \cup (IF Touched(TsConfig) THEN {<<"config", TsConfig>>} ELSE {})

\* trix was installed on the machine when the run started.
TrixAtStart ==
  trixPresent /\ ~\E i \in DOMAIN events : events[i] = Event("installTrix", "tx3up", TRUE)

\* C22 (as stated): the changes a dry-run preview announces from a project
\* state are the changes a real run from that state makes (runs in which a
\* best-effort step failed are left out).
C22_PreviewEqualsExecution ==
  (pc = "Completed" /\ ~TrixFailed /\ ~DevnetFailed) =>
    PerformedActions = showDryRunPreview(pre[PackageJson], TrixAtStart, rev)

\* C23 (as stated): the devnet bundle is copied and the devnet:start script
\* added only in runs in which trix is available: installed before the
\* run, or installed successfully by it.
C23_DevnetOnlyWithTrix ==
  (Happened({"copyDevnetFolder"}) \/ DevnetSetUp) => trixPresent

\* How often the command op was invoked with argument arg.
Invocations(op, arg) ==
  Cardinality({ i \in DOMAIN events : events[i].op = op /\ events[i].arg = arg })

TrixChecks == Cardinality({ i \in DOMAIN events : events[i].op = "checkTrix" })

\* The package manager for regular and for dev dependencies, the project
\* generator (mkdir in revision 1), shadcn init and the trix installer are
\* each invoked at most once.
InstallersOnce ==
  /\ Invocations("installPackages", "deps") <= 1
  /\ Invocations("installPackages", "devDeps") <= 1
  /\ Invocations("generator", "create-next-app") <= 1
  /\ Invocations("mkdir", "target") <= 1
  /\ Invocations("generator", "shadcn") <= 1
  /\ Invocations("installTrix", "tx3up") <= 1

\* C24 (as stated): in every run each externally invoked command,
\* the trix availability check among them, is invoked at most once.
C24_EveryCommandOnce == InstallersOnce /\ TrixChecks <= 1

\* C24 (amended): each of these commands is invoked at most once, except
\* the trix availability check, which is made at most twice (before the
\* trix prompt and again before the devnet prompt).
C24_CommandsOnceTrixCheckTwice == InstallersOnce /\ TrixChecks <= 2

\* A run that checked for trix twice, failed to install it, and ran the
\* package manager for both kinds of dependency.
C24_Witness ==
  /\ pc = "Completed"
  /\ TrixChecks = 2
  /\ TrixFailed
  /\ Invocations("installPackages", "deps") = 1
  /\ Invocations("installPackages", "devDeps") = 1

\* The critical step event i belongs to: 1 package install, 2 tsconfig
\* merge, 3 script write, 4 template creation; 0 for any other event (the
\* write of package.json that follows the devnet copy is the devnet's).
StepOf(i) ==
  LET e == events[i]
  IN  IF e.op = "installPackages" THEN 1
      ELSE IF e.op = "writeFile" /\ e.arg = TsConfig THEN 2
      ELSE IF e.op = "writeFile" /\ e.arg = PackageJson
                /\ ~(i > 1 /\ events[i - 1].op = "copyDevnetFolder") THEN 3
      ELSE IF e.op = "createDirectory" THEN 4
      ELSE IF e.op = "writeFile" /\ e.arg \in Range(TemplatePaths) THEN 4
      ELSE 0

StepEvents == { i \in DOMAIN events : StepOf(i) > 0 }

\* The number of the step whose error entered the catch block.
FailedStep ==
  CASE errStep = "packages" -> 1
    [] errStep = "tsconfig" -> 2
    [] errStep = "scripts" -> 3
    [] errStep = "templates" -> 4
    [] OTHER -> 5

\* C25: the critical steps run in the order package install, tsconfig
\* merge, script write, template creation; a failed call is the last call
\* of a critical step in the run, no step after the failed one makes any
\* call, and a run is Completed only with every step done: the required
\* packages present, tsconfig.json and the scripts written and the three
\* template files created.
C25_StepsInOrderStopAtFailure ==
  /\ \A i, j \in StepEvents : i < j => StepOf(i) <= StepOf(j)
  /\ \A i, j \in StepEvents : ~events[i].ok => j <= i
  /\ \A i \in StepEvents : StepOf(i) <= FailedStep
  /\ \A i \in StepEvents : (~events[i].ok) => StepOf(i) = FailedStep
  /\ pc = "Completed" =>
       /\ errStep = "none"
       /\ \A i \in StepEvents : events[i].ok
       /\ requiredPackages \cup requiredDevPackages
            \subseteq fs[PackageJson].deps \cup fs[PackageJson].devDeps
       /\ \E i \in StepEvents : StepOf(i) = 2
       /\ \E i \in StepEvents : StepOf(i) = 3
       /\ \A p \in Range(TemplatePaths) :
            \E i \in StepEvents : events[i].arg = p /\ fs[p] = TemplateText

\* A run that failed in the tsconfig merge after installing packages: the
\* scripts were not written and no template file was created.
C25_Witness ==
  /\ pc = "Failed"
  /\ errStep = "tsconfig"
  /\ \E i \in StepEvents : StepOf(i) = 1
  /\ \A i \in StepEvents : StepOf(i) <= 2
  /\ \A p \in Range(TemplatePaths) : fs[p] = AbsentText

C27_ProjectNameIsWellFormed ==
  (cmd = "init" /\ Happened({"mkdir", "generator"})) => projectName = "ok"

\* C28: init calls removeDirectory only in a run that found the target
\* absent at its existence check and went on to create it, only with the
\* project name as the path, and a directory that existed before the run
\* is still there afterwards.
C28_CleanupSparesExistingDirectory ==
  /\ Happened({"removeDirectory"}) =>
       /\ cmd = "init"
       /\ ~targetBefore
       /\ Happened({"mkdir", "generator"})
       /\ \A i \in DOMAIN events :
            events[i].op = "removeDirectory" => events[i].arg = "target"
  /\ (cmd = "init" /\ targetBefore) => targetExists

\* A cleanup that removed the directory the failed generator had left.
C28_Witness ==
  /\ cmd = "init"
  /\ ipc = "Exited"
  /\ ~targetBefore
  /\ \E i \in DOMAIN events : events[i] = Event("removeDirectory", "target", TRUE)
  /\ ~targetExists

====
